---------------------------- MODULE Spec2Model ----------------------------
(***************************************************************************)
(* scripts/generate_fund_list.py: one process reads the fund CSV, resolves *)
(* the two named columns on its third line, filters the data rows and      *)
(* dumps the accepted {id, name} records as JSON.                          *)
(*                                                                         *)
(* Text is a sequence of one-character strings.  The two header names are  *)
(* single symbols: "I" stands for the column name '基金碼' and "N" for     *)
(* '基金全稱'; both are non-ASCII, as is the byte order mark BOM.          *)
(***************************************************************************)
EXTENDS Integers, Sequences, FiniteSets, TLC

\* ------------------------------------------------------------------ bounds
\* Largest number of data lines (lines after the header) in a source file.
MaxRows == 2

\* ------------------------------------------------------- program constants
\* len(lines) < 3
MinLines == 3
\* lines[2], as a 1-based position
HeaderLine == 3

NL == "\n"
QUOTE == "\""
COMMA == ","
BOM == "BOM"
NonAscii == {"I", "N", BOM}

Min(a, b) == IF a < b THEN a ELSE b
\* max(id_index, name_index)
Max(a, b) == IF a > b THEN a ELSE b

\* ------------------------------------------------------------- str methods
\* The characters str.strip() removes.
IsSpace(c) == c \in {" ", NL}

RECURSIVE LStrip(_)
LStrip(s) ==
    IF s # <<>> /\ IsSpace(Head(s)) THEN LStrip(Tail(s)) ELSE s

RECURSIVE RStrip(_)
RStrip(s) ==
    IF s # <<>> /\ IsSpace(s[Len(s)]) THEN RStrip(SubSeq(s, 1, Len(s) - 1)) ELSE s

\* str.strip()
Strip(s) == RStrip(LStrip(s))

\* str.split(','): the fields between the commas, one more than the commas.
RECURSIVE SplitFrom(_, _, _)
SplitFrom(s, k, cur) ==
    IF k > Len(s) THEN <<cur>>
    ELSE IF s[k] = COMMA THEN <<cur>> \o SplitFrom(s, k + 1, <<>>)
    ELSE SplitFrom(s, k + 1, Append(cur, s[k]))

Split(s) == SplitFrom(s, 1, <<>>)

\* list.index(v) as a 0-based position, -1 for ValueError.
RECURSIVE IndexFrom(_, _, _)
IndexFrom(xs, v, k) ==
    IF k > Len(xs) THEN -1
    ELSE IF xs[k] = v THEN k - 1
    ELSE IndexFrom(xs, v, k + 1)

Index_OrZero(xs, v) == Max(IndexFrom(xs, v, 1), 0)
Index(xs, v) == IndexFrom(xs, v, 1)

\* -------------------------------------------------------------- csv.reader
\* One step of the reader's state machine (excel dialect: delimiter ',',
\* quotechar '"', doublequote, not strict) on character c.  p is
\* [state, fields, field, error].
SaveField(p) == [p EXCEPT !.fields = Append(p.fields, p.field), !.field = <<>>]

InField(p, c) ==
    IF c = NL THEN [SaveField(p) EXCEPT !.state = "EAT_CRNL"]
    ELSE IF c = COMMA THEN [SaveField(p) EXCEPT !.state = "START_FIELD"]
    ELSE [p EXCEPT !.field = Append(p.field, c)]

StartField(p, c) ==
    IF c = NL THEN [SaveField(p) EXCEPT !.state = "EAT_CRNL"]
    ELSE IF c = QUOTE THEN [p EXCEPT !.state = "IN_QUOTED_FIELD"]
    ELSE IF c = COMMA THEN SaveField(p)
    ELSE [p EXCEPT !.field = Append(p.field, c), !.state = "IN_FIELD"]

InQuotedField(p, c) ==
    IF c = QUOTE THEN [p EXCEPT !.state = "QUOTE_IN_QUOTED_FIELD"]
    ELSE [p EXCEPT !.field = Append(p.field, c)]

QuoteInQuotedField(p, c) ==
    IF c = QUOTE
    THEN [p EXCEPT !.field = Append(p.field, c), !.state = "IN_QUOTED_FIELD"]
    ELSE IF c = COMMA THEN [SaveField(p) EXCEPT !.state = "START_FIELD"]
    ELSE IF c = NL THEN [SaveField(p) EXCEPT !.state = "EAT_CRNL"]
    ELSE [p EXCEPT !.field = Append(p.field, c), !.state = "IN_FIELD"]

ProcessChar(p, c) ==
    CASE p.state = "START_RECORD" ->
            IF c = NL THEN [p EXCEPT !.state = "EAT_CRNL"] ELSE StartField(p, c)
      [] p.state = "START_FIELD" -> StartField(p, c)
      [] p.state = "IN_FIELD" -> InField(p, c)
      [] p.state = "IN_QUOTED_FIELD" -> InQuotedField(p, c)
      [] p.state = "QUOTE_IN_QUOTED_FIELD" -> QuoteInQuotedField(p, c)
      [] p.state = "EAT_CRNL" ->
            IF c = NL THEN p ELSE [p EXCEPT !.error = TRUE]

\* The end of the only line the reader is given: an open field is saved, a
\* quoted field left open is saved as it stands.
EndOfLine(p) ==
    IF p.state \in {"START_FIELD", "IN_FIELD", "IN_QUOTED_FIELD",
                    "QUOTE_IN_QUOTED_FIELD"}
    THEN [SaveField(p) EXCEPT !.state = "START_RECORD"]
    ELSE [p EXCEPT !.state = "START_RECORD"]

RECURSIVE ParseFrom(_, _, _)
ParseFrom(line, k, p) ==
    IF p.error THEN p
    ELSE IF k > Len(line) THEN EndOfLine(p)
    ELSE ParseFrom(line, k + 1, ProcessChar(p, line[k]))

\* next(csv.reader([line])): [error, fields].
ParseRow(line) ==
    ParseFrom(line, 1, [state |-> "START_RECORD", fields |-> <<>>,
                        field |-> <<>>, error |-> FALSE])

\* ---------------------------------------------------------------- json.dump
\* py_encode_basestring: the escape of one character (ensure_ascii=False).
EscapeChar(c) ==
    IF c = QUOTE THEN "\\\"" ELSE IF c = NL THEN "\\n" ELSE c

RECURSIVE EscapeFrom(_, _)
EscapeFrom(s, k) ==
    IF k > Len(s) THEN "" ELSE EscapeChar(s[k]) \o EscapeFrom(s, k + 1)

EncodeString(s) == QUOTE \o EscapeFrom(s, 1) \o QUOTE

\* The chunks of one dict {'id': ..., 'name': ...} at indent level 1.
DictChunks(fund) ==
    << "{", "\n    ", "\"id\"", ": ", EncodeString(fund.id), ",\n    ",
       "\"name\"", ": ", EncodeString(fund.name), "\n  ", "}" >>

RECURSIVE ListChunksFrom(_, _)
ListChunksFrom(fs, k) ==
    IF k > Len(fs) THEN << "\n", "]" >>
    ELSE << IF k = 1 THEN "[\n  " ELSE ",\n  " >> \o DictChunks(fs[k])
         \o ListChunksFrom(fs, k + 1)

\* The chunks json.dump(funds, f, ensure_ascii=False, indent=2) writes, in
\* order; the file's content is their concatenation.
DumpChunks(fs) == IF fs = <<>> THEN << "[]" >> ELSE ListChunksFrom(fs, 1)

\* ------------------------------------------------------------------- files
\* A source file is [kind, text]: kind is the encoding its bytes were written
\* in ("utf8", "big5"), "binary" for bytes neither codec decodes, "missing"
\* for no file; text is its lines, each ended by NL, a BOM possibly first.
HasAny(text, cs) == \E i \in 1..Len(text) : \E j \in 1..Len(text[i]) : text[i][j] \in cs

\* utf-8-sig drops one leading byte order mark.
StripBOM(text) ==
    IF text # <<>> /\ text[1] # <<>> /\ text[1][1] = BOM
    THEN [text EXCEPT ![1] = Tail(text[1])]
    ELSE text

\* open(CSV_PATH, encoding='utf-8-sig').readlines(): Big5 bytes of a non-ASCII
\* character are not valid UTF-8; ASCII bytes are the same in both.
DecodeUtf8Sig(f) ==
    IF f.kind = "binary" \/ (f.kind = "big5" /\ HasAny(f.text, NonAscii))
    THEN [ok |-> FALSE, lines |-> <<>>]
    ELSE [ok |-> TRUE, lines |-> StripBOM(f.text)]

\* open(CSV_PATH, encoding='big5').readlines(): the UTF-8 bytes of the header
\* names (and of a BOM before them) are illegal Big5 sequences.
DecodeBig5(f) ==
    IF f.kind = "binary" \/ (f.kind = "utf8" /\ HasAny(f.text, NonAscii))
    THEN [ok |-> FALSE, lines |-> <<>>]
    ELSE [ok |-> TRUE, lines |-> f.text]

NoFile == [exists |-> FALSE, content |-> <<>>]
FileOf(chunks) == [exists |-> TRUE, content |-> chunks]

\* ------------------------------------------------------------------ inputs
Line(s) == Append(s, NL)

\* Header lines: both names, either order, a column before them, padding
\* around the line (stripped), padding inside a field (kept), a name missing.
HeaderLines ==
    { Line(<<"I", ",", "N">>),
      Line(<<"N", ",", "I">>),
      Line(<<"x", ",", "I", ",", "N">>),
      Line(<<" ", "I", ",", "N", " ">>),
      Line(<<"I", " ", ",", "N">>),
      Line(<<"I", ",", "x">>),
      Line(<<"x", ",", "N">>) }

\* Data lines: two plain fields, an empty first or second field, padded
\* fields and a quoted comma, a single field, an empty line, a field that is
\* only quoted white space, quotes inside the fields.
DataRows ==
    { Line(<<"a", ",", "b">>),
      Line(<<",", "b">>),
      Line(<<"a", ",">>),
      Line(<<"b", ",", " ", "a", " ", ",", QUOTE, "a", ",", "b", QUOTE>>),
      Line(<<"a">>),
      Line(<<>>),
      Line(<<QUOTE, " ", QUOTE, ",", "b">>),
      Line(<<"a", QUOTE, "b", ",", QUOTE, "b", QUOTE, QUOTE, "a", QUOTE>>) }

\* The two metadata lines: plain text, or text that looks like a header line
\* and a data line (behind a BOM in a UTF-8 file).
MetaPairs(kind) ==
    { << Line(<<"x">>), Line(<<"x">>) >>,
      << (IF kind = "utf8" THEN <<BOM>> ELSE <<>>) \o Line(<<"I", ",", "N">>),
         Line(<<"a", ",", "b">>) >> }

RowLists == UNION { [1..n -> DataRows] : n \in 0..MaxRows }

\* Files of 0, 1 and 2 lines, and files with a header line and data lines.
SourceTexts(kind) ==
    { SubSeq(m, 1, n) : m \in MetaPairs(kind), n \in 0..2 }
    \cup { m \o <<h>> \o rs : m \in MetaPairs(kind), h \in HeaderLines, rs \in RowLists }

\* A Big5 file with no non-ASCII character is the same bytes as a UTF-8 file.
SourceFiles ==
    { [kind |-> "missing", text |-> <<>>], [kind |-> "binary", text |-> <<>>] }
    \cup { [kind |-> "utf8", text |-> t] : t \in SourceTexts("utf8") }
    \cup { [kind |-> "big5", text |-> t] :
             t \in { u \in SourceTexts("big5") : HasAny(u, NonAscii) } }

\* The output file before the first run: absent, or left by something else.
OldOutput == FileOf(<< "old" >>)

\* ------------------------------------------------------------------- state
VARIABLES
    src,         \* the file at CSV_PATH
    outFile,     \* the file at JSON_PATH
    pc,          \* where generate_fund_list() stands
    lines,       \* f.readlines()
    headers,     \* header_line.split(',')
    id_index,    \* headers.index('基金碼')
    name_index,  \* headers.index('基金全稱')
    pos,         \* the position in lines of the next data line of the for loop
    funds,       \* the list of accepted records
    handles,     \* the file objects that are open
    stdout,      \* what the run has printed, in order
    result,      \* how the run ended: "none" while it runs
    opens,       \* history: the open() calls of the run, in order
    before,      \* history: outFile when the run started
    prev,        \* history: how the run before this one ended
    edited       \* history: the metadata lines changed since the run started

vars == << src, outFile, pc, lines, headers, id_index, name_index, pos, funds,
           handles, stdout, result, opens, before, prev, edited >>

locals == << lines, headers, id_index, name_index, pos, funds >>

Msg(tag, arg) == [tag |-> tag, arg |-> arg]
Printed(tag) == \E k \in 1..Len(stdout) : stdout[k].tag = tag
OpenCall(path, mode, encoding) == [path |-> path, mode |-> mode, encoding |-> encoding]

NoRun == [result |-> "none", out |-> NoFile, same |-> TRUE]

\* A process about to call generate_fund_list().
Fresh ==
    /\ pc = "start"
    /\ lines = <<>>
    /\ headers = <<>>
    /\ id_index = -1
    /\ name_index = -1
    /\ pos = 0
    /\ funds = <<>>
    /\ handles = {}
    /\ stdout = <<>>
    /\ result = "none"
    /\ opens = <<>>

Init ==
    /\ src \in SourceFiles
    /\ outFile \in {NoFile, OldOutput}
    /\ before = outFile
    /\ prev = NoRun
    /\ edited = FALSE
    /\ Fresh

\* ----------------------------------------------------------------- helpers
\* with open(...) as f: leaving the block, by its end or by an exception,
\* closes f.
ExitWith_Leak(hs, h) == hs
ExitWith(hs, h) == hs \ {h}

\* raise out of generate_fund_list(), or return from it.
Ends(how) ==
    /\ result' = how
    /\ pc' = "exited"

\* if len(row) > max(id_index, name_index)
Covers(row, i, n) == Len(row) > Max(i, n)

\* if fund_id and fund_name
BothGiven_Either(fund_id, fund_name) == fund_id # <<>> \/ fund_name # <<>>
BothGiven(fund_id, fund_name) == fund_id # <<>> /\ fund_name # <<>>

\* The funds list after the loop body has run on one parsed row.
AfterRow_Prepend(fs, row, i, n) ==
    IF Covers(row, i, n) /\ BothGiven(Strip(row[i + 1]), Strip(row[n + 1]))
    THEN << [id |-> Strip(row[i + 1]), name |-> Strip(row[n + 1])] >> \o fs
    ELSE fs
AfterRow(fs, row, i, n) ==
    IF Covers(row, i, n)
    THEN LET fund_id == Strip(row[i + 1])
             fund_name == Strip(row[n + 1])
         IN  IF BothGiven(fund_id, fund_name)
             THEN Append(fs, [id |-> fund_id, name |-> fund_name])
             ELSE fs
    ELSE fs

\* ------------------------------------------------------------------- steps
\* print("Reading CSV from ..."); funds = []; open(CSV_PATH, 'r', 'utf-8-sig')
OpenUtf8 ==
    /\ pc = "start"
    /\ stdout' = Append(stdout, Msg("Reading CSV from", <<"CSV_PATH">>))
    /\ funds' = <<>>
    /\ opens' = Append(opens, OpenCall("CSV_PATH", "r", "utf-8-sig"))
    /\ IF src.kind = "missing"
       THEN Ends("FileNotFoundError") /\ UNCHANGED handles
       ELSE /\ handles' = handles \cup {"csv"}
            /\ pc' = "read_utf8"
            /\ UNCHANGED result
    /\ UNCHANGED << src, outFile, lines, headers, id_index, name_index, pos,
                    before, prev, edited >>

\* lines = f.readlines() and the end of the with block; on UnicodeDecodeError
\* the except clause prints the fallback notice.
ReadUtf8 ==
    /\ pc = "read_utf8"
    /\ handles' = ExitWith(handles, "csv")
    /\ LET d == DecodeUtf8Sig(src)
       IN  IF d.ok
           THEN /\ lines' = d.lines
                /\ pc' = "check_len"
                /\ UNCHANGED stdout
           ELSE /\ stdout' = Append(stdout, Msg("UTF-8 decode failed, trying Big5...", <<>>))
                /\ pc' = "open_big5"
                /\ UNCHANGED lines
    /\ UNCHANGED << src, outFile, headers, id_index, name_index, pos, funds,
                    result, opens, before, prev, edited >>

\* open(CSV_PATH, 'r', encoding='big5') in the except clause
OpenBig5 ==
    /\ pc = "open_big5"
    /\ opens' = Append(opens, OpenCall("CSV_PATH", "r", "big5"))
    /\ handles' = handles \cup {"csv"}
    /\ pc' = "read_big5"
    /\ UNCHANGED << src, outFile, stdout, result, before, prev, edited, locals >>

\* lines = f.readlines() under Big5; a second UnicodeDecodeError is not caught.
ReadBig5_Utf8 ==
    /\ pc = "read_big5"
    /\ handles' = ExitWith(handles, "csv")
    /\ LET d == DecodeUtf8Sig(src)
       IN  IF d.ok
           THEN /\ lines' = d.lines
                /\ pc' = "check_len"
                /\ UNCHANGED result
           ELSE /\ Ends("UnicodeDecodeError")
                /\ UNCHANGED lines
    /\ UNCHANGED << src, outFile, headers, id_index, name_index, pos, funds,
                    stdout, opens, before, prev, edited >>
ReadBig5 ==
    /\ pc = "read_big5"
    /\ handles' = ExitWith(handles, "csv")
    /\ LET d == DecodeBig5(src)
       IN  IF d.ok
           THEN /\ lines' = d.lines
                /\ pc' = "check_len"
                /\ UNCHANGED result
           ELSE /\ Ends("UnicodeDecodeError")
                /\ UNCHANGED lines
    /\ UNCHANGED << src, outFile, headers, id_index, name_index, pos, funds,
                    stdout, opens, before, prev, edited >>

\* if len(lines) < 3: print(...); return
TooShort_Four(ls) == Len(ls) <= MinLines
TooShort(ls) == Len(ls) < MinLines

CheckLength ==
    /\ pc = "check_len"
    /\ IF TooShort(lines)
       THEN /\ stdout' = Append(stdout, Msg("Error: CSV file is too short.", <<>>))
            /\ Ends("too_short")
       ELSE /\ pc' = "resolve"
            /\ UNCHANGED << stdout, result >>
    /\ UNCHANGED << src, outFile, handles, opens, before, prev, edited, locals >>

\* header_line = lines[2].strip(); headers = header_line.split(',')
HeadersOf_First(ls) == Split(Strip(ls[1]))
HeadersOf(ls) == Split(Strip(ls[HeaderLine]))

\* The two headers.index() calls; ValueError prints what was not found and the
\* headers, and returns.
ResolveHeaders ==
    /\ pc = "resolve"
    /\ headers' = HeadersOf(lines)
    /\ LET i == Index(headers', <<"I">>)
           n == Index(headers', <<"N">>)
       IN  IF i = -1 \/ n = -1
           THEN /\ stdout' = stdout \o
                      << Msg("Error finding headers", IF i = -1 THEN <<"I">> ELSE <<"N">>),
                         Msg("Available headers", headers') >>
                /\ Ends("no_header")
                /\ id_index' = i
                /\ UNCHANGED << name_index, pos >>
           ELSE /\ id_index' = i
                /\ name_index' = n
                /\ pos' = HeaderLine + 1
                /\ pc' = "rows"
                /\ UNCHANGED << stdout, result >>
    /\ UNCHANGED << src, outFile, lines, funds, handles, opens, before, prev, edited >>

\* One pass of: for line in lines[3:]
ProcessRow ==
    /\ pc = "rows"
    /\ pos <= Len(lines)
    /\ LET r == ParseRow(lines[pos])
       IN  IF r.error
           THEN /\ Ends("csv.Error")
                /\ UNCHANGED << funds, pos >>
           ELSE /\ funds' = AfterRow(funds, r.fields, id_index, name_index)
                /\ pos' = pos + 1
                /\ UNCHANGED << pc, result >>
    /\ UNCHANGED << src, outFile, lines, headers, id_index, name_index, handles,
                    stdout, opens, before, prev, edited >>

\* The loop is over: print("Writing n funds to ..."); os.makedirs(...)
MakeDirs ==
    /\ pc = "rows"
    /\ pos > Len(lines)
    /\ stdout' = Append(stdout, Msg("Writing funds to", <<Len(funds)>>))
    /\ pc' = "open_out"
    /\ UNCHANGED << src, outFile, handles, result, opens, before, prev, edited, locals >>

\* open(JSON_PATH, 'w', encoding='utf-8') truncates the file.
Truncated_Append(f) == FileOf(f.content)
Truncated(f) == FileOf(<<>>)

OpenOutput ==
    /\ pc = "open_out"
    /\ opens' = Append(opens, OpenCall("JSON_PATH", "w", "utf-8"))
    /\ outFile' = Truncated(outFile)
    /\ handles' = handles \cup {"json"}
    /\ pc' = "dump"
    /\ UNCHANGED << src, stdout, result, before, prev, edited, locals >>

\* json.dump(funds, f, ensure_ascii=False, indent=2) and the end of the with
\* block.
Dump ==
    /\ pc = "dump"
    /\ outFile' = FileOf(outFile.content \o DumpChunks(funds))
    /\ handles' = ExitWith(handles, "json")
    /\ pc' = "success"
    /\ UNCHANGED << src, stdout, result, opens, before, prev, edited, locals >>

\* print("Success!") and the end of the function.
PrintSuccess ==
    /\ pc = "success"
    /\ stdout' = Append(stdout, Msg("Success!", <<>>))
    /\ Ends("success")
    /\ UNCHANGED << src, outFile, handles, opens, before, prev, edited, locals >>

\* -------------------------------------------------- filesystem errors (OSError)
\* os.makedirs raises (a parent is not writable, a path component is a file).
MakeDirsFails ==
    /\ pc = "rows"
    /\ pos > Len(lines)
    /\ stdout' = Append(stdout, Msg("Writing funds to", <<Len(funds)>>))
    /\ Ends("OSError")
    /\ UNCHANGED << src, outFile, handles, opens, before, prev, edited, locals >>

\* open(JSON_PATH, 'w') raises (no permission): the file is as it was.
OpenOutputFails ==
    /\ pc = "open_out"
    /\ opens' = Append(opens, OpenCall("JSON_PATH", "w", "utf-8"))
    /\ Ends("OSError")
    /\ UNCHANGED << src, outFile, handles, stdout, before, prev, edited, locals >>

\* A write or the flush on close raises (disk full, I/O error) after some of
\* the chunks, any number short of all, reached the file.
DumpFails ==
    /\ pc = "dump"
    /\ \E k \in 0..(Len(DumpChunks(funds)) - 1) :
          outFile' = FileOf(outFile.content \o SubSeq(DumpChunks(funds), 1, k))
    /\ handles' = ExitWith(handles, "json")
    /\ Ends("OSError")
    /\ UNCHANGED << src, stdout, opens, before, prev, edited, locals >>

\* ------------------------------------------------------------ between runs
\* The script is started again.
Rerun ==
    /\ pc = "exited"
    /\ prev' = [result |-> result, out |-> outFile, same |-> ~edited]
    /\ before' = outFile
    /\ edited' = FALSE
    /\ pc' = "start"
    /\ lines' = <<>>
    /\ headers' = <<>>
    /\ id_index' = -1
    /\ name_index' = -1
    /\ pos' = 0
    /\ funds' = <<>>
    /\ handles' = {}
    /\ stdout' = <<>>
    /\ result' = "none"
    /\ opens' = <<>>
    /\ UNCHANGED << src, outFile >>

\* Someone rewrites the metadata lines of the source, and nothing else of it.
WithMeta(text, m) ==
    [k \in 1..Len(text) |-> IF k <= Min(2, Len(m)) THEN m[k] ELSE text[k]]

EditMetadata ==
    /\ pc = "exited"
    /\ src.kind \in {"utf8", "big5"}
    /\ \E m \in MetaPairs(src.kind) :
          /\ WithMeta(src.text, m) # src.text
          /\ src' = [src EXCEPT !.text = WithMeta(src.text, m)]
    /\ edited' = TRUE
    /\ UNCHANGED << outFile, pc, handles, stdout, result, opens, before, prev, locals >>

\* --------------------------------------------------------- specifications
Step ==
    \/ OpenUtf8
    \/ ReadUtf8
    \/ OpenBig5
    \/ ReadBig5
    \/ CheckLength
    \/ ResolveHeaders
    \/ ProcessRow
    \/ MakeDirs
    \/ OpenOutput
    \/ Dump
    \/ PrintSuccess

Next ==
    \/ Step
    \/ MakeDirsFails
    \/ OpenOutputFails
    \/ DumpFails

\* One run of the script, on any source and with any filesystem error.
Spec == Init /\ [][Next]_vars

NextRuns ==
    \/ Step
    \/ Rerun
    \/ EditMetadata

\* Runs of the script one after the other, none hit by a filesystem error,
\* the metadata lines possibly rewritten between them.
SpecRuns == Init /\ [][NextRuns]_vars

\* ------------------------------------------------- what the claims speak of
\* The names on the header line: the third line, trimmed, split at its commas.
ThirdLineNames(ls) == Split(Strip(ls[HeaderLine]))
NamePositions(ls, v) ==
    { k \in 1..Len(ThirdLineNames(ls)) : ThirdLineNames(ls)[k] = v }
HasBothNames(ls) == NamePositions(ls, <<"I">>) # {} /\ NamePositions(ls, <<"N">>) # {}

\* The trimmed value of data line k in 0-based column col; empty when the row
\* has no such column.
ValueAt(ls, k, col) ==
    LET f == ParseRow(ls[k]).fields
    IN  IF col + 1 <= Len(f) THEN Strip(f[col + 1]) ELSE <<>>

\* The positions of the data lines with a value in both columns.
AcceptedUpTo(ls, last, i, n) ==
    { k \in (HeaderLine + 1)..last : ValueAt(ls, k, i) # <<>> /\ ValueAt(ls, k, n) # <<>> }

\* The j-th smallest member of a set of positions.
Nth(S, j) == CHOOSE k \in S : Cardinality({ m \in S : m < k }) = j - 1

\* The records of the accepted data lines, in the order of their lines.
RecordsOf(ls, i, n) ==
    LET A == AcceptedUpTo(ls, Len(ls), i, n)
    IN  [ j \in 1..Cardinality(A) |->
            [id |-> ValueAt(ls, Nth(A, j), i), name |-> ValueAt(ls, Nth(A, j), n)] ]

\* How a run that no filesystem error hits ends, from the decoded lines.
BranchOf(ls) ==
    IF Len(ls) < 3 THEN "too_short"
    ELSE IF ~HasBothNames(ls) THEN "no_header"
    ELSE "success"

\* The run has decoded the source into lines.
Decoded ==
    /\ pc \notin {"start", "read_utf8", "open_big5", "read_big5"}
    /\ result \notin {"FileNotFoundError", "UnicodeDecodeError"}

OpenedFor(path) == { k \in 1..Len(opens) : opens[k].path = path }
TriedEncoding(e) == \E k \in 1..Len(opens) : opens[k].encoding = e
Untouched == outFile = before
Diagnostics == {"Error: CSV file is too short.", "Error finding headers"}

\* ------------------------------------------------------------------ claims
\* C1: with at least 3 lines and both names on the header line, the list
\* written is exactly the data lines that have a non-empty trimmed value in
\* both resolved columns: one record per such line, holding the trimmed
\* values, none left out or repeated, in the order of the lines.
C1_WrittenListIsAcceptedRows ==
    /\ (pc = "exited" /\ Decoded /\ Len(lines) >= 3 /\ HasBothNames(lines)
            /\ result # "OSError")
        => result = "success"
    /\ (pc = "success" \/ result = "success")
        => /\ Len(lines) >= 3 /\ HasBothNames(lines)
           /\ funds = RecordsOf(lines, id_index, name_index)
           /\ outFile = FileOf(DumpChunks(RecordsOf(lines, id_index, name_index)))

C1_Witness ==
    /\ result = "success"
    /\ Len(funds) = 2
    /\ funds[1] # funds[2]
    /\ id_index > name_index

\* C2: at every point of the run every record of the list has a non-empty,
\* trimmed id and name, and the list holds one record per processed data line
\* that covers both columns with non-empty trimmed values: a line with too few
\* fields or an empty value adds nothing.
C2_RecordsAreComplete ==
    /\ \A k \in 1..Len(funds) :
          /\ funds[k].id # <<>> /\ Strip(funds[k].id) = funds[k].id
          /\ funds[k].name # <<>> /\ Strip(funds[k].name) = funds[k].name
    /\ pc = "rows" =>
          Len(funds) = Cardinality(AcceptedUpTo(lines, pos - 1, id_index, name_index))
    /\ pc \in {"start", "read_utf8", "open_big5", "read_big5", "check_len", "resolve"}
          => funds = <<>>

C2_Witness ==
    /\ pc = "rows"
    /\ pos = HeaderLine + 3
    /\ Len(funds) = 1
    /\ \E k \in {HeaderLine + 1, HeaderLine + 2} :
          /\ Len(ParseRow(lines[k]).fields) > Max(id_index, name_index)
          /\ ValueAt(lines, k, id_index) = <<>>

\* C3: when the header line lacks '基金碼' or '基金全稱', the run prints the
\* headers it found and ends; the output file is as it was before the run, it
\* was never opened, and no data line was processed.
C3_MissingHeaderAborts ==
    (Decoded /\ Len(lines) >= 3 /\ ~HasBothNames(lines)
        /\ pc \notin {"check_len", "resolve"})
    => /\ pc = "exited"
       /\ result = "no_header"
       /\ \E k \in 1..Len(stdout) :
             stdout[k].tag = "Available headers" /\ stdout[k].arg = ThirdLineNames(lines)
       /\ Untouched
       /\ OpenedFor("JSON_PATH") = {}
       /\ funds = <<>> /\ pos = 0

C3_Witness ==
    /\ result = "no_header"
    /\ before = OldOutput
    /\ Len(lines) > HeaderLine
    /\ NamePositions(lines, <<"I">>) # {}

\* C4: a source of 0, 1 or 2 lines makes the run print the error and end with
\* the output file as it was, before any header is resolved; a source of
\* exactly 3 lines is not too short.
C4_ShortSourceAborts ==
    /\ (Decoded /\ Len(lines) < 3 /\ pc # "check_len")
        => /\ pc = "exited"
           /\ result = "too_short"
           /\ Printed("Error: CSV file is too short.")
           /\ Untouched
           /\ OpenedFor("JSON_PATH") = {}
           /\ headers = <<>> /\ id_index = -1 /\ name_index = -1
    /\ (Decoded /\ Len(lines) >= 3)
        => result # "too_short" /\ ~Printed("Error: CSV file is too short.")

C4_Witness ==
    /\ result = "too_short"
    /\ Len(lines) = 2
    /\ before = OldOutput

\* C5: the output is written once per run, only after every data line has
\* been processed, and a run that has ended has left the output file either
\* as it was before the run or holding the complete serialization of the
\* accepted records.
C5_OutputUntouchedOrComplete ==
    /\ Cardinality(OpenedFor("JSON_PATH")) <= 1
    /\ OpenedFor("JSON_PATH") # {} => pos > Len(lines)
    /\ pc = "exited" => (Untouched \/ outFile = FileOf(DumpChunks(funds)))

\* C6: the first read is UTF-8 with the BOM dropped; Big5 is tried exactly
\* when that read fails to decode; a source that only Big5 decodes ends as its
\* lines decide, the same way a UTF-8 source of those lines does; when Big5
\* fails too there is no third read, the error propagates and the output file
\* is as it was.
C6_DecodingFallback ==
    /\ opens # <<>> => opens[1] = OpenCall("CSV_PATH", "r", "utf-8-sig")
    /\ Cardinality(OpenedFor("CSV_PATH")) <= 2
    /\ TriedEncoding("big5") => (src.kind # "missing" /\ ~DecodeUtf8Sig(src).ok)
    /\ (pc \notin {"start", "read_utf8", "open_big5"} /\ src.kind # "missing"
            /\ ~DecodeUtf8Sig(src).ok)
        => TriedEncoding("big5")
    /\ (Decoded /\ lines # <<>> /\ lines[1] # <<>>) => lines[1][1] # BOM
    /\ (pc \notin {"start", "read_utf8", "open_big5", "read_big5"}
            /\ src.kind # "missing" /\ ~DecodeUtf8Sig(src).ok /\ DecodeBig5(src).ok)
        => Decoded /\ lines = src.text
    /\ (pc = "exited" /\ Decoded /\ result # "OSError")
        => /\ result = BranchOf(lines)
           /\ result = "success"
                => outFile = FileOf(DumpChunks(RecordsOf(lines, id_index, name_index)))
    /\ (pc \notin {"start", "read_utf8", "open_big5", "read_big5"}
            /\ src.kind # "missing" /\ ~DecodeUtf8Sig(src).ok /\ ~DecodeBig5(src).ok)
        => /\ result = "UnicodeDecodeError"
           /\ pc = "exited"
           /\ Untouched
           /\ OpenedFor("JSON_PATH") = {}

C6_Witness ==
    /\ result = "success"
    /\ TriedEncoding("big5")
    /\ Printed("UTF-8 decode failed, trying Big5...")
    /\ Len(funds) >= 1

\* C7: a successful run leaves in the output file the serialization of the
\* records of its source, whatever the file held before; a successful run
\* after a successful run on the same source leaves the file identical.
C7_OverwriteIsIdempotent ==
    result = "success"
    => /\ outFile = FileOf(DumpChunks(RecordsOf(lines, id_index, name_index)))
       /\ (prev.result = "success" /\ prev.same) => outFile = prev.out

C7_Witness ==
    /\ result = "success"
    /\ prev.result = "success"
    /\ prev.same
    /\ Len(funds) >= 1

\* C8: at most one file is open at any time, the source is closed before the
\* line count is checked, the header resolved, the rows parsed and the output
\* opened, and no file is open once the run has ended, however it ended.
C8_HandlesReleased ==
    /\ Cardinality(handles) <= 1
    /\ pc \in {"check_len", "resolve", "rows", "open_out", "success", "exited"}
          => handles = {}
    /\ pc = "dump" => handles = {"json"}
    /\ pc \in {"open_big5"} => handles = {}

C8_Witness ==
    /\ pc = "exited"
    /\ result = "OSError"
    /\ Len(opens) = 3
    /\ outFile # before

\* C9: two runs on sources that differ only in the content of their first two
\* lines end the same way and leave the same output.
C9_MetadataIgnored ==
    (pc = "exited" /\ prev.result # "none")
    => /\ result = prev.result
       /\ outFile = prev.out

C9_Witness ==
    /\ pc = "exited"
    /\ prev.result = "success"
    /\ ~prev.same
    /\ result = "success"
    /\ Len(funds) >= 1

\* C10: a run that has ended printed the success marker exactly when it wrote
\* the output in full, printed it last and after the write, printed no
\* diagnostic beside it, and, when it ended on a fatal condition, left the
\* output file unwritten.
C10_SuccessIffWritten ==
    /\ pc = "exited" =>
          (Printed("Success!") <=>
              (OpenedFor("JSON_PATH") # {} /\ outFile = FileOf(DumpChunks(funds))))
    /\ Printed("Success!") =>
          /\ stdout[Len(stdout)].tag = "Success!"
          /\ \A k \in 1..Len(stdout) : stdout[k].tag \notin Diagnostics
    /\ (pc = "exited" /\ result # "success") => Untouched

=============================================================================
